---- MODULE Spec2Model ----
(***************************************************************************)
(* Model of the Swallow weather-station driver (src/swallow.py).           *)
(*                                                                         *)
(* Characters are one-character strings, a Python str is a sequence of     *)
(* them, a byte is a number in 0..255.  A Python float is represented      *)
(* exactly as an integer number of units of 2^-FracBits; the station's     *)
(* float fields are drawn from values that lie on that grid.  A Python     *)
(* None is the empty sequence and a value v that may be None is <<v>>.     *)
(***************************************************************************)
EXTENDS Integers, Sequences, FiniteSets, TLC

\* ------------------------------------------------------------ constants
PACKET_CHAR_COUNT == 98
PACKET_BYTE_COUNT == 49
BASE == 16
MaxTries == 3
SETTLE_SECONDS == 10

\* floats are counted in units of 2^-FracBits
FracBits == 4
Unit == 2 ^ FracBits

None == << >>
Some(v) == << v >>

Min(a, b) == IF a < b THEN a ELSE b

\* ------------------------------------------------------------ byte codec
HexChars == << "0", "1", "2", "3", "4", "5", "6", "7",
               "8", "9", "a", "b", "c", "d", "e", "f" >>

\* one byte .encode('hex'): two lowercase hex characters, high nibble first
EncodeHex(b) == << HexChars[(b \div 16) + 1], HexChars[(b % 16) + 1] >>

\* the loop of get_readings that expands the received bytes to characters:
\* byte i becomes characters 2i-1 and 2i
BytesToChars(bytes) ==
    [k \in 1 .. 2 * Len(bytes) |-> EncodeHex(bytes[(k + 1) \div 2])[2 - (k % 2)]]

HexVal(c) == CHOOSE n \in 0 .. 15 : HexChars[n + 1] = c

\* Python s[a:b] for 0 <= a <= b: the slice is cut at the end of s
Slice(s, a, b) == SubSeq(s, a + 1, Min(b, Len(s)))

\* the four two-character groups of the field at offset o, last group first
Swap4(raw, o) ==
    Slice(raw, o + 6, o + 8) \o Slice(raw, o + 4, o + 6)
        \o Slice(raw, o + 2, o + 4) \o Slice(raw, o, o + 2)

\* the 2-byte field at offset o, had its groups been left in wire order
Swap2_NoSwap(raw, o) == Slice(raw, o, o + 4)

\* the two groups of the 2-byte field at offset o, second group first
Swap2(raw, o) == Slice(raw, o + 2, o + 4) \o Slice(raw, o, o + 2)

\* int(s, 16) / long(s, 16) of a non-empty string of hex digits
RECURSIVE IntBase16(_)
IntBase16(s) ==
    IF s = << >> THEN 0
    ELSE IntBase16(SubSeq(s, 1, Len(s) - 1)) * BASE + HexVal(s[Len(s)])

\* int(s, 16) raises ValueError on the empty string
IntFails(s) == s = << >>

\* s.decode('hex'): the bytes of an even-length string of hex digits
DecodeHex(s) ==
    [i \in 1 .. (Len(s) \div 2) |-> HexVal(s[2 * i - 1]) * 16 + HexVal(s[2 * i])]

\* struct.unpack('!f', b)[0] of 4 bytes, most significant first: IEEE-754
\* single precision, the value in units of 2^-FracBits.  Zero and the normal
\* numbers on the grid are covered (the station's values are drawn from them).
Unpack_f(b) ==
    LET sign == b[1] \div 128
        exp  == (b[1] % 128) * 2 + (b[2] \div 128)
        mant == (b[2] % 128) * 65536 + b[3] * 256 + b[4]
        sig  == 8388608 + mant
        sh   == exp - 150 + FracBits
        mag  == IF exp = 0 THEN 0
                ELSE IF sh >= 0 THEN sig * (2 ^ sh)
                ELSE sig \div (2 ^ (0 - sh))
    IN  IF sign = 1 THEN 0 - mag ELSE mag

\* struct.unpack('!f', s.decode('hex')) raises struct.error unless it is
\* given exactly 4 bytes (TypeError from decode on an odd number of digits)
UnpackFails(s) == Len(s) # 8

\* ------------------------------------------------------------ validator
HEADER == << "c", "c", "d", "d", "0", "0", "0", "2", "2", "a" >>

\* the places where 'ccdd00022a' occurs in buf
Occurrences(buf) ==
    {i \in 1 .. Len(buf) - Len(HEADER) + 1 :
        SubSeq(buf, i, i + Len(HEADER) - 1) = HEADER}

\* buf.replace('ccdd00022a', ''): scanning from the left, the first
\* occurrence is dropped and the scan goes on behind it
RECURSIVE Replace(_)
Replace(buf) ==
    IF Occurrences(buf) = {} THEN buf
    ELSE LET first == CHOOSE i \in Occurrences(buf) :
                          \A j \in Occurrences(buf) : i <= j
         IN  SubSeq(buf, 1, first - 1)
                \o Replace(SubSeq(buf, first + Len(HEADER), Len(buf)))

\* the two checks of validate_string, in the order of the code
LengthOK(buf) == Len(buf) = PACKET_CHAR_COUNT
HeaderOK(buf) == Slice(buf, 0, 10) = HEADER

\* validate_string, had the header been compared before the length
validate_string_HeaderFirst(buf) ==
    IF ~HeaderOK(buf)
    THEN [err |-> "WeeWxIOError", msg |-> "Unexpected header bytes", buf |-> None]
    ELSE IF ~LengthOK(buf)
    THEN [err |-> "WeeWxIOError", msg |-> "Unexpected buffer length", buf |-> None]
    ELSE [err |-> "none", msg |-> "VALIDATION OK", buf |-> Some(Replace(buf))]

\* validate_string: the exception it raises, or the returned buffer
validate_string(buf) ==
    IF ~LengthOK(buf)
    THEN [err |-> "WeeWxIOError", msg |-> "Unexpected buffer length", buf |-> None]
    ELSE IF ~HeaderOK(buf)
    THEN [err |-> "WeeWxIOError", msg |-> "Unexpected header bytes", buf |-> None]
    ELSE [err |-> "none", msg |-> "VALIDATION OK", buf |-> Some(Replace(buf))]

\* ------------------------------------------------------------ field decoder
FloatErr(s) ==
    IF Len(s) % 2 = 1 THEN "TypeError"
    ELSE IF UnpackFails(s) THEN "struct.error"
    ELSE "none"

IntErr(s) == IF IntFails(s) THEN "ValueError" ELSE "none"

\* the exceptions of the fields of parse_readings, in the order of evaluation
FieldErrs(raw) ==
    << IntErr(Swap2(raw, 0)),
       FloatErr(Swap4(raw, 4)),  FloatErr(Swap4(raw, 12)),
       FloatErr(Swap4(raw, 20)), FloatErr(Swap4(raw, 28)),
       FloatErr(Swap4(raw, 36)), IntErr(Swap4(raw, 44)),
       FloatErr(Swap4(raw, 52)), FloatErr(Swap4(raw, 60)),
       FloatErr(Swap4(raw, 68)), IntErr(Swap4(raw, 76)) >>

\* the first exception raised while decoding raw, "none" when all fields decode
ParseErr(raw) ==
    LET e == FieldErrs(raw)
        bad == {i \in 1 .. Len(e) : e[i] # "none"}
    IN  IF bad = {} THEN "none"
        ELSE e[CHOOSE i \in bad : \A j \in bad : i <= j]

Float(raw, o) == Unpack_f(DecodeHex(Swap4(raw, o)))

\* the humidity of parse_readings: only values above 100.0 are replaced
Humidity(humi) == IF humi > 100 * Unit THEN 100 * Unit ELSE humi

\* parse_readings on a buffer all of whose fields decode
ParseData(raw) ==
    [windDir          |-> IntBase16(Swap2(raw, 0)),
     outTemp          |-> Float(raw, 4),
     pressure         |-> Float(raw, 12),
     long_term_rain   |-> Float(raw, 20),
     windSpeed        |-> Float(raw, 28),
     outHumidity      |-> Humidity(Float(raw, 36)),
     long_term_geiger |-> IntBase16(Swap4(raw, 44)),
     illumination     |-> Float(raw, 52),
     inTemp           |-> Float(raw, 60),
     maxWind          |-> Float(raw, 68),
     downfall         |-> IntBase16(Swap4(raw, 76)) # 0]

parse_readings(raw) ==
    IF ParseErr(raw) # "none" THEN [err |-> ParseErr(raw), data |-> None]
    ELSE [err |-> "none", data |-> Some(ParseData(raw))]

\* ------------------------------------------------------------ post-processor
\* packet['deltarain'] of _augment_packet: the difference to the stored
\* total unless the stored total is 0.0, then None
DeltaRain(long_term_rain, lastRain) ==
    IF lastRain # 0 THEN Some(long_term_rain - lastRain) ELSE None

\* packet['geiger'] of _augment_packet
DeltaGeiger(long_term_geiger, lastGeiger) ==
    IF lastGeiger # 0 THEN Some(long_term_geiger - lastGeiger) ELSE None

\* the packet of genLoopPackets after packet.update(data) and _augment_packet
\* (dateTime, the wall-clock second of the cycle, is left out)
AugmentedPacket(data, lastRain, lastGeiger) ==
    [usUnits          |-> "METRIC",
     windDir          |-> data.windDir,
     outTemp          |-> data.outTemp,
     pressure         |-> data.pressure,
     long_term_rain   |-> data.long_term_rain,
     windSpeed        |-> data.windSpeed,
     outHumidity      |-> data.outHumidity,
     long_term_geiger |-> data.long_term_geiger,
     illumination     |-> data.illumination,
     inTemp           |-> data.inTemp,
     maxWind          |-> data.maxWind,
     downfall         |-> data.downfall,
     deltarain        |-> DeltaRain(data.long_term_rain, lastRain),
     geiger           |-> DeltaGeiger(data.long_term_geiger, lastGeiger)]

\* ------------------------------------------------------------ the station
\* What the serial port can deliver: the count inWaiting() reports and the
\* 49 bytes read(49) returns.  A frame is the 5 header bytes, the 42 bytes
\* parse_readings decodes (fields low byte first) and 2 closing bytes, which
\* hold 0xFFFF minus the sum of the 42 data bytes, low byte first, as they do
\* in the request AA BB 00 02 2A 6E FE.
Available == {0, 48, 49, 60}

REQUEST == << 170, 187, 0, 2, 42, 110, 254 >>

HeaderBytes == << 204, 221, 0, 2, 42 >>
WrongHeaderBytes == << 204, 221, 0, 2, 43 >>

\* the sum of a sequence of bytes, by halves
RECURSIVE Sum(_)
Sum(bytes) ==
    IF Len(bytes) = 0 THEN 0
    ELSE IF Len(bytes) = 1 THEN bytes[1]
    ELSE Sum(SubSeq(bytes, 1, Len(bytes) \div 2))
            + Sum(SubSeq(bytes, (Len(bytes) \div 2) + 1, Len(bytes)))

LE16(n) == << n % 256, n \div 256 >>
LE32(n) == << n % 256, (n \div 256) % 256, (n \div 65536) % 256, n \div 16777216 >>

Checksum(data) == 65535 - Sum(data)

\* float32 values on the wire, low byte first
F0     == << 0, 0, 0, 0 >>
F2     == << 0, 0, 0, 64 >>
F4     == << 0, 0, 128, 64 >>
F10    == << 0, 0, 32, 65 >>
F12_5  == << 0, 0, 72, 65 >>
F20    == << 0, 0, 160, 65 >>
F24_5  == << 0, 0, 196, 65 >>
F26    == << 0, 0, 208, 65 >>
F50    == << 0, 0, 72, 66 >>
F137_25 == << 0, 64, 9, 67 >>
FNeg5  == << 0, 0, 160, 192 >>

RainBytes  == {F0, F4, F10, F12_5}
GeigerCounts == {0, 5, 9}
\* outTemp and outHumidity of a reading: 20.0 / 50.0, 24.5 / 137.25, 26.0 / -5.0
TempHumBytes == {<< F20, F50 >>, << F24_5, F137_25 >>, << F26, FNeg5 >>}

DataBytes(temp, rain, hum, geiger) ==
    LE16(270) \o temp \o F10 \o rain \o F2 \o hum \o LE32(geiger)
        \o F0 \o F20 \o F4 \o LE32(1)

PlainData ==
    {DataBytes(th[1], r, th[2], g) :
        th \in TempHumBytes, r \in RainBytes, g \in GeigerCounts}

\* data whose maxWind and downfall bytes spell the header, cc dd 00 02 2a
\* (windDir 311 makes the low checksum byte 0x40 or 0x41, which the decoder
\* reads as the top byte of maxWind once the echo is removed: 2.0 or 8.0)
EchoData ==
    LE16(311) \o F20 \o F10 \o F4 \o F2 \o F50 \o LE32(5)
        \o F0 \o F20 \o << 204, 221, 0, 2 >> \o << 42, 0, 0, 0 >>

\* a frame whose data spell the header twice, with zero closing bytes
DoubleEchoFrame ==
    HeaderBytes \o LE16(270) \o F20 \o F10 \o F4 \o F2 \o F50 \o LE32(5)
        \o << 204, 221, 0, 2, 42 >> \o << 204, 221, 0, 2, 42 >>
        \o << 0, 0, 0, 0, 0, 0 >> \o << 0, 0 >>

\* the closing bytes hold the checksum (c = 0) or are off by one (c = 1)
Closed(h, d, c) == h \o d \o LE16((Checksum(d) + c) % 65536)

Frames ==
    {Closed(HeaderBytes, d, 0) : d \in PlainData \cup {EchoData}}
    \cup {Closed(h, d, c) : h \in {HeaderBytes, WrongHeaderBytes},
                             d \in {DataBytes(F20, F4, F50, 5)}, c \in {0, 1}}
    \cup {Closed(HeaderBytes, EchoData, 1), DoubleEchoFrame}

\* ------------------------------------------------------------ state
VARIABLES
    station,          \* SwallowDriver.station: "Station" or "None"
    serial_port,      \* Station.serial_port: "open" or "None"
    last_rain,        \* SwallowDriver.last_rain
    last_geiger,      \* SwallowDriver.last_geiger
    pc,               \* where genLoopPackets / get_readings stands
    try2send,         \* get_readings: attempts made
    data_left,        \* get_readings: the last inWaiting() result
    frame,            \* get_readings: received_bytes of this cycle, or None
    validated_chars,  \* get_readings: its result, or None while unbound
    parsed,           \* the argument parse_readings was called with, or None
    packet,           \* the packet the generator has yielded, or None
    err,              \* the exception that left genLoopPackets, "none" if none
    prev,             \* history: rain, geiger, outTemp of the packet before
    log,              \* history: the serial calls of the running get_readings
    handle_closes,    \* history: close() calls made on the serial handle
    closeCall,        \* history: what the last closePort / close call did
    arg,              \* the input of the function applied on its own
    res               \* its result, or None before it is applied

vars == << station, serial_port, last_rain, last_geiger, pc, try2send,
           data_left, frame, validated_chars, parsed, packet, err, prev,
           log, handle_closes, closeCall, arg, res >>

driver == << station, serial_port, last_rain, last_geiger >>
locals == << try2send, data_left, frame, validated_chars, parsed >>
closing == << handle_closes, closeCall >>
pure == << arg, res >>

\* one call on the serial port, with what it was given or what it returned
Call(op, a) == [op |-> op, arg |-> a]

\* SwallowDriver.__init__ and Station.__init__ / open; the generator of
\* genLoopPackets is created and not yet started
DriverInit ==
    /\ station = "Station"
    /\ serial_port = "open"
    /\ last_rain = 0
    /\ last_geiger = 0
    /\ pc = "start"
    /\ try2send = 0
    /\ data_left = 0
    /\ frame = None
    /\ validated_chars = None
    /\ parsed = None
    /\ packet = None
    /\ err = "none"
    /\ prev = None
    /\ log = << >>
    /\ handle_closes = 0
    /\ closeCall = "none"

Init ==
    /\ DriverInit
    /\ arg = None
    /\ res = None

\* an exception leaves genLoopPackets: nothing in it catches one
Raise(e) ==
    /\ pc' = "raised"
    /\ err' = e
    /\ packet' = None

\* the host pulls the next packet: the body of the while loop starts
HostNext ==
    /\ pc \in {"start", "yielded"}
    /\ prev' = IF packet # None
               THEN Some([long_term_rain   |-> packet[1].long_term_rain,
                          long_term_geiger |-> packet[1].long_term_geiger,
                          outTemp          |-> packet[1].outTemp])
               ELSE prev
    /\ try2send' = 0
    /\ data_left' = 0
    /\ frame' = None
    /\ validated_chars' = None
    /\ parsed' = None
    /\ IF station = "None"
       THEN Raise("AttributeError")
       ELSE pc' = "flush" /\ packet' = None /\ err' = "none"
    /\ log' = << >>
    /\ UNCHANGED << driver, closing, pure >>

\* get_readings: self.serial_port.flushInput()
\* (on a port that Station.close has set to None the call raises)
FlushInput ==
    /\ pc = "flush"
    /\ IF serial_port = "None"
       THEN Raise("AttributeError") /\ UNCHANGED log
       ELSE /\ pc' = "write"
            /\ log' = Append(log, Call("flushInput", << >>))
            /\ UNCHANGED << packet, err >>
    /\ UNCHANGED << driver, locals, prev, closing, pure >>

\* get_readings: self.serial_port.write(REQUEST)
WriteRequest ==
    /\ pc = "write"
    /\ pc' = "settle"
    /\ log' = Append(log, Call("write", REQUEST))
    /\ UNCHANGED << driver, locals, packet, err, prev, closing, pure >>

\* get_readings: time.sleep(10)
Settle ==
    /\ pc = "settle"
    /\ pc' = "inWaiting"
    /\ log' = Append(log, Call("sleep", << SETTLE_SECONDS >>))
    /\ UNCHANGED << driver, locals, packet, err, prev, closing, pure >>

\* get_readings, had the loop been written `while try2send <= 3`
InWaiting_OffByOne ==
    /\ pc = "inWaiting"
    /\ \E n \in Available :
        /\ data_left' = n
        /\ try2send' = try2send + 1
        /\ pc' = IF n >= PACKET_BYTE_COUNT THEN "read"
                 ELSE IF try2send + 1 <= MaxTries THEN "flush"
                 ELSE "return"
        /\ log' = Append(log, Call("inWaiting", << n >>))
    /\ UNCHANGED << driver, frame, validated_chars, parsed, packet, err, prev,
                    closing, pure >>

\* get_readings, had flushInput been called once before the loop only
InWaiting_NoReflush ==
    /\ pc = "inWaiting"
    /\ \E n \in Available :
        /\ data_left' = n
        /\ try2send' = try2send + 1
        /\ pc' = IF n >= PACKET_BYTE_COUNT THEN "read"
                 ELSE IF try2send + 1 < MaxTries THEN "write"
                 ELSE "return"
        /\ log' = Append(log, Call("inWaiting", << n >>))
    /\ UNCHANGED << driver, frame, validated_chars, parsed, packet, err, prev,
                    closing, pure >>

\* get_readings: data_left = inWaiting(); try2send += 1; break or loop
InWaiting ==
    /\ pc = "inWaiting"
    /\ \E n \in Available :
        /\ data_left' = n
        /\ try2send' = try2send + 1
        /\ pc' = IF n >= PACKET_BYTE_COUNT THEN "read"
                 ELSE IF try2send + 1 < MaxTries THEN "flush"
                 ELSE "return"
        /\ log' = Append(log, Call("inWaiting", << n >>))
    /\ UNCHANGED << driver, frame, validated_chars, parsed, packet, err, prev,
                    closing, pure >>

\* get_readings: data_left >= 49: read(49), expand to hex, validate_string
ReadFrame ==
    /\ pc = "read"
    /\ data_left >= PACKET_BYTE_COUNT
    /\ \E f \in Frames :
        LET v == validate_string(BytesToChars(f))
        IN  /\ frame' = Some(f)
            /\ IF v.err = "none"
               THEN /\ validated_chars' = v.buf
                    /\ pc' = "parse"
                    /\ UNCHANGED << packet, err >>
               ELSE /\ validated_chars' = None
                    /\ Raise(v.err)
    /\ log' = Append(log, Call("read", << PACKET_BYTE_COUNT >>))
    /\ UNCHANGED << driver, try2send, data_left, parsed, prev, closing, pure >>

\* get_readings, had validated_chars been set to '' before the loop: the short
\* read returns the empty string to genLoopPackets
ReturnUnbound_Empty ==
    /\ pc = "return"
    /\ data_left < PACKET_BYTE_COUNT
    /\ validated_chars' = Some(<< >>)
    /\ pc' = "parse"
    /\ UNCHANGED << driver, try2send, data_left, frame, parsed, packet, err, prev,
                    log, closing, pure >>

\* the short read, had the driver forgotten its totals on it
ReturnUnbound_ResetTotals ==
    /\ pc = "return"
    /\ data_left < PACKET_BYTE_COUNT
    /\ Raise("UnboundLocalError")
    /\ last_rain' = 0
    /\ last_geiger' = 0
    /\ UNCHANGED << station, serial_port, locals, prev, log, closing, pure >>

\* get_readings: data_left < 49 after the last attempt: return validated_chars
\* reads a local that was never assigned
ReturnUnbound ==
    /\ pc = "return"
    /\ data_left < PACKET_BYTE_COUNT
    /\ Raise("UnboundLocalError")
    /\ UNCHANGED << driver, locals, prev, log, closing, pure >>

\* genLoopPackets: data = Station.parse_readings(readings)
Parse ==
    /\ pc = "parse"
    /\ parsed' = validated_chars
    /\ IF parse_readings(validated_chars[1]).err = "none"
       THEN pc' = "augment" /\ UNCHANGED << packet, err >>
       ELSE Raise(parse_readings(validated_chars[1]).err)
    /\ log' = << >>
    /\ UNCHANGED << driver, try2send, data_left, frame, validated_chars, prev,
                    closing, pure >>

\* _augment_packet, had the totals been stored inside the branches that
\* compute a difference: nothing is stored while the stored total is zero
Augment_StoreInBranch ==
    /\ pc = "augment"
    /\ LET data == parse_readings(validated_chars[1]).data[1]
       IN  /\ packet' = Some(AugmentedPacket(data, last_rain, last_geiger))
           /\ last_rain' = IF last_rain # 0 THEN data.long_term_rain ELSE last_rain
           /\ last_geiger' = IF last_geiger # 0 THEN data.long_term_geiger
                             ELSE last_geiger
    /\ pc' = "loop_sleep"
    /\ UNCHANGED << station, serial_port, locals, err, prev, log, closing, pure >>

\* genLoopPackets: packet.update(data); self._augment_packet(packet)
Augment ==
    /\ pc = "augment"
    /\ LET data == parse_readings(validated_chars[1]).data[1]
       IN  /\ packet' = Some(AugmentedPacket(data, last_rain, last_geiger))
           /\ last_rain' = data.long_term_rain
           /\ last_geiger' = data.long_term_geiger
    /\ pc' = "loop_sleep"
    /\ UNCHANGED << station, serial_port, locals, err, prev, log, closing, pure >>

\* genLoopPackets: time.sleep(self.loop_interval); yield packet
Yield ==
    /\ pc = "loop_sleep"
    /\ pc' = "yielded"
    /\ UNCHANGED << driver, locals, packet, err, prev, log, closing, pure >>

\* where the generator stands while the host is running
HostPcs == {"start", "yielded", "raised"}

\* Station.close, had it closed the handle without looking at serial_port
Close_Unguarded ==
    /\ serial_port' = "None"
    /\ handle_closes' = handle_closes + 1
    /\ closeCall' = "closed"

\* Station.close: the handle is closed and dropped only if there is one
Close ==
    IF serial_port # "None"
    THEN /\ serial_port' = "None"
         /\ handle_closes' = handle_closes + 1
         /\ closeCall' = "closed"
    ELSE /\ closeCall' = "noop"
         /\ UNCHANGED << serial_port, handle_closes >>

\* the host calls closePort while the generator is not running
ClosePort ==
    /\ pc \in HostPcs
    /\ IF station # "None"
       THEN Close /\ station' = "None"
       ELSE closeCall' = "noop" /\ UNCHANGED << station, serial_port, handle_closes >>
    /\ UNCHANGED << last_rain, last_geiger, pc, locals, packet, err, prev, log, pure >>

\* the host calls close() on the driver's Station itself
StationClose ==
    /\ pc \in HostPcs
    /\ station # "None"
    /\ Close
    /\ UNCHANGED << station, last_rain, last_geiger, pc, locals, packet, err, prev,
                    log, pure >>

\* the host calls genLoopPackets again after the generator has ended
GenLoopPackets ==
    /\ pc = "raised"
    /\ pc' = "start"
    /\ err' = "none"
    /\ UNCHANGED << driver, locals, packet, prev, log, closing, pure >>

Next ==
    \/ HostNext
    \/ FlushInput
    \/ WriteRequest
    \/ Settle
    \/ InWaiting
    \/ ReadFrame
    \/ ReturnUnbound
    \/ Parse
    \/ Augment
    \/ Yield
    \/ ClosePort
    \/ StationClose
    \/ GenLoopPackets

Spec == Init /\ [][Next]_vars

\* ------------------------------------------------------------ validate_string
\* validate_string applied on its own to buffers of the right and of wrong
\* lengths: the hex expansions of the frames, whole, cut short and extended
CutLens == {0, 9, 10, 96, 97}
Buffers ==
    LET whole == {BytesToChars(f) : f \in Frames}
    IN  whole
        \cup {SubSeq(c, 1, n) : c \in whole, n \in CutLens}
        \cup {c \o << "0" >> : c \in whole}
        \cup {c \o << "0", "0" >> : c \in whole}

ValidateInit ==
    /\ DriverInit
    /\ arg \in {Some(b) : b \in Buffers}
    /\ res = None

ApplyValidate ==
    /\ arg # None
    /\ res = None
    /\ res' = Some(validate_string(arg[1]))
    /\ UNCHANGED << driver, pc, locals, packet, err, prev, log, closing, arg >>

ValidateNext == ApplyValidate

ValidateSpec == ValidateInit /\ [][ValidateNext]_vars

\* ------------------------------------------------------------ unsigned fields
\* the unsigned fields of a frame: windDir of 2 bytes, long_term_geiger of 4
\* bytes (values below 2^31) and the 4 bytes of downfall
WindDirs == {0, 1, 255, 256, 270, 4660, 32768, 65535}
GeigerTotals == {0, 1, 255, 256, 65536, 16777216, 305419896, 2147483647}
DownfallBytes ==
    {<< 0, 0, 0, 0 >>, << 1, 0, 0, 0 >>, << 0, 1, 0, 0 >>, << 0, 0, 1, 0 >>,
     << 0, 0, 0, 1 >>, << 255, 255, 255, 127 >>}

\* the frame of the station for these fields, low byte first
FieldFrame(a) ==
    Closed(HeaderBytes,
           LE16(a.windDir) \o F20 \o F10 \o F4 \o F2 \o F50 \o LE32(a.geiger)
               \o F0 \o F20 \o F4 \o a.downfall,
           0)

\* get_readings on that frame, then parse_readings
ReadAndParse(a) ==
    LET v == validate_string(BytesToChars(FieldFrame(a)))
    IN  IF v.err # "none" THEN [err |-> v.err, data |-> None]
        ELSE parse_readings(v.buf[1])

CodecInit ==
    /\ DriverInit
    /\ arg \in {Some([windDir |-> w, geiger |-> g, downfall |-> d]) :
                    w \in WindDirs, g \in GeigerTotals, d \in DownfallBytes}
    /\ res = None

ApplyCodec ==
    /\ arg # None
    /\ res = None
    /\ res' = Some(ReadAndParse(arg[1]))
    /\ UNCHANGED << driver, pc, locals, packet, err, prev, log, closing, arg >>

CodecNext == ApplyCodec

CodecSpec == CodecInit /\ [][CodecNext]_vars

\* ------------------------------------------------------------ claims
Abs(x) == IF x < 0 THEN 0 - x ELSE x

\* the exceptions a cycle can end with: the short read, validation, decoding
CycleErrors ==
    {"UnboundLocalError", "WeeWxIOError", "struct.error", "ValueError", "TypeError"}

\* what parse_readings made of the payload it was called with in this cycle
Decoded == parse_readings(parsed[1]).data[1]

LEVal(b) == b[1] + 256 * b[2]
BEVal(b) == 256 * b[1] + b[2]
Want(f, lo, hi) == 65535 - Sum(SubSeq(f, lo, hi))

\* frame f carries 0xFFFF minus the sum of its data bytes, under any reading
\* of where the two checksum bytes sit and of their byte order: after the
\* data (over the data, or over all 47 bytes before them), between header and
\* data, or in the first two bytes of the frame
CarriesChecksum(f) ==
    \/ \E v \in {LEVal(SubSeq(f, 48, 49)), BEVal(SubSeq(f, 48, 49))} :
          v \in {Want(f, 6, 47), Want(f, 1, 47)}
    \/ \E v \in {LEVal(SubSeq(f, 6, 7)), BEVal(SubSeq(f, 6, 7))} :
          v = Want(f, 8, 49)
    \/ \E v \in {LEVal(SubSeq(f, 1, 2)), BEVal(SubSeq(f, 1, 2))} :
          v \in {Want(f, 3, 49), Want(f, 6, 47), Want(f, 8, 49)}

\* C1: the deltarain of every yielded packet is 0.0 when no cumulative rain
\* was stored before (first successful cycle) or the new cumulative rain is
\* not above the stored one, and new minus stored otherwise; so it is never
\* negative and never absent.
C1_RainDelta ==
    pc = "yielded" =>
        LET new == packet[1].long_term_rain
        IN  packet[1].deltarain =
                IF prev = None \/ new <= prev[1].long_term_rain
                THEN Some(0)
                ELSE Some(new - prev[1].long_term_rain)

\* C2: the geiger field of every yielded packet is 0 when no cumulative
\* count was stored before or the new count is not above the stored one,
\* and new minus stored otherwise; so it is never negative.
C2_GeigerDelta ==
    pc = "yielded" =>
        LET new == packet[1].long_term_geiger
        IN  packet[1].geiger =
                IF prev = None \/ new <= prev[1].long_term_geiger
                THEN Some(0)
                ELSE Some(new - prev[1].long_term_geiger)

\* C3: the outTemp of a yielded packet is the raw decoded outTemp when it is
\* the first of the session or differs from the last accepted value by less
\* than 5.0, and the last accepted value otherwise; so two consecutive
\* output outTemp values never differ by 5.0 or more.
C3_TempFilter ==
    pc = "yielded" =>
        /\ packet[1].outTemp =
              IF prev = None \/ Abs(Decoded.outTemp - prev[1].outTemp) < 5 * Unit
              THEN Decoded.outTemp
              ELSE prev[1].outTemp
        /\ prev # None => Abs(packet[1].outTemp - prev[1].outTemp) < 5 * Unit

\* C4: a payload is returned by validate_string, and decoded, only for a
\* frame that carries the checksum 0xFFFF minus the sum of its data bytes.
C4_ChecksumChecked ==
    (validated_chars # None \/ parsed # None) => CarriesChecksum(frame[1])

\* C5: for every frame read that starts with the header and closes with the
\* correct checksum, validation succeeds and returns exactly 42 data bytes
\* (84 hex characters).
C5_PayloadIs42Bytes ==
    (/\ frame # None
     /\ SubSeq(frame[1], 1, 5) = HeaderBytes
     /\ LEVal(SubSeq(frame[1], 48, 49)) = Want(frame[1], 6, 47))
    => /\ validated_chars # None
       /\ Len(validated_chars[1]) = 2 * 42

\* C6: no short read, validation error or decode error of a cycle leaves
\* genLoopPackets.
C6_ErrorsStayInside == ~(pc = "raised" /\ err \in CycleErrors)

\* C7: when inWaiting() reported fewer than 49 bytes on 3 consecutive
\* attempts, get_readings ends with the driver's I/O error, having read no
\* bytes and returned no frame.
C7_ShortReadIsIOError ==
    (pc = "raised" /\ try2send = MaxTries /\ data_left < PACKET_BYTE_COUNT)
    => /\ err = "WeeWxIOError"
       /\ frame = None
       /\ validated_chars = None

\* C8: parse_readings is called, and a packet is built, only with the
\* payload that validate_string returned for a full 49-byte frame read in
\* the same cycle after inWaiting() reported at least 49 bytes; never after
\* a short read or for a frame that fails the length or the header check.
C8_DecodeOnlyValidated ==
    /\ parsed # None =>
          /\ frame # None
          /\ data_left >= PACKET_BYTE_COUNT
          /\ Len(frame[1]) = PACKET_BYTE_COUNT
          /\ Len(BytesToChars(frame[1])) = PACKET_CHAR_COUNT
          /\ SubSeq(frame[1], 1, 5) = HeaderBytes
          /\ validated_chars = parsed
          /\ validate_string(BytesToChars(frame[1])).buf = parsed
    /\ (pc \in {"augment", "loop_sleep"} \/ packet # None) => parsed # None
    /\ (pc = "raised" /\ err \in {"UnboundLocalError", "WeeWxIOError"})
          => parsed = None

\* a packet was yielded from a frame that arrived on the third attempt,
\* after two short reads
C8_Witness ==
    /\ pc = "yielded"
    /\ packet # None
    /\ parsed # None
    /\ try2send = MaxTries

\* C9: the outHumidity of every decoded payload lies in [0.0, 100.0].
C9_HumidityClamped ==
    (parsed # None /\ parse_readings(parsed[1]).err = "none")
    => /\ Decoded.outHumidity >= 0
       /\ Decoded.outHumidity <= 100 * Unit

\* C10: whenever genLoopPackets has ended with an exception, the serial
\* port is closed.
C10_PortReleased == pc = "raised" => serial_port = "None"

\* where the generator stands while a pull of the host is being served
PullPcs ==
    {"flush", "write", "settle", "inWaiting", "read", "return", "parse",
     "augment", "loop_sleep"}

\* C11: a pull on genLoopPackets outlasts any number of short or invalid
\* responses and ends by yielding a packet once the station answers with a
\* valid frame: a pull that is being served ends only with a yielded packet.
C11_PullEndsWithPacket ==
    [][(pc \in PullPcs /\ pc' \notin PullPcs) => pc' = "yielded"]_vars

\* C12: after every successful cycle, whichever branch of the delta rule
\* was taken, the stored last_rain and last_geiger are the cumulative rain
\* and the cumulative count of that cycle's reading.
C12_TotalsStored ==
    pc \in {"loop_sleep", "yielded"} =>
        /\ last_rain = Decoded.long_term_rain
        /\ last_geiger = Decoded.long_term_geiger
        /\ last_rain = packet[1].long_term_rain
        /\ last_geiger = packet[1].long_term_geiger

\* a cycle that took the difference branch for rain and the other for geiger
C12_Witness ==
    /\ pc = "yielded"
    /\ packet[1].deltarain # None
    /\ packet[1].geiger = None
    /\ last_rain = packet[1].long_term_rain
    /\ last_rain # prev[1].long_term_rain

\* the positions of the calls of one kind in the log of get_readings
At(o) == {i \in 1 .. Len(log) : log[i].op = o}
Writes == At("write")
Queries == At("inWaiting")
Reads == At("read")
LastQuery == log[CHOOSE i \in Queries : \A j \in Queries : j <= i].arg[1]

\* get_readings is running / has returned or raised after reaching the port
CallPcs == {"flush", "write", "settle", "inWaiting", "read", "return"}
CallEnded == pc \in {"parse", "raised", "start"} /\ log # << >>
GetReadingsStep ==
    FlushInput \/ WriteRequest \/ Settle \/ InWaiting \/ ReadFrame \/ ReturnUnbound

\* C13: one call of get_readings on the open port makes at least 1 and at most
\* 3 request attempts, each with one query; it stops at the first attempt
\* whose query reports at least 49 bytes and gives up after the third; it
\* reads one 49-byte frame exactly if its last query reported at least 49
\* bytes, and it always ends: it can always step (the read has its 49 bytes
\* and a frame to return), and no more than 3 attempts of 4 calls and one
\* read are ever made.
C13_BoundedAttempts ==
    /\ try2send <= MaxTries
    /\ Cardinality(Writes) <= 3
    /\ Len(log) <= 4 * 3 + 1
    /\ pc \in CallPcs \ {"read"} => ENABLED GetReadingsStep
    /\ pc = "read" => data_left >= 49 /\ Frames # {}
    /\ CallEnded =>
        /\ Cardinality(Writes) \in 1 .. 3
        /\ Cardinality(Queries) = Cardinality(Writes)
        /\ try2send = Cardinality(Writes)
        /\ \A i \in Queries :
              (\E j \in Queries : j > i) => log[i].arg[1] < 49
        /\ LastQuery < 49 =>
              /\ Cardinality(Writes) = 3
              /\ Reads = {}
              /\ frame = None
        /\ LastQuery >= 49 =>
              /\ Reads = {Len(log)}
              /\ log[Len(log)].arg = << 49 >>
              /\ frame # None /\ Len(frame[1]) = 49

\* get_readings returned a frame that it read on its third attempt
C13_Witness ==
    /\ pc = "parse"
    /\ Cardinality(Writes) = 3
    /\ log[4].arg[1] < 49 /\ log[8].arg[1] < 49 /\ log[12].arg[1] >= 49
    /\ Reads = {13}

\* C14: every attempt of get_readings discards the pending input, then writes
\* the 7-byte request AA BB 00 02 2A 6E FE, then waits 10 seconds, then asks
\* how many bytes are waiting, in that order; a frame is read only straight
\* after a query, and a new attempt starts only after a query below 49.
C14_AttemptOrder ==
    \A i \in 1 .. Len(log) :
        /\ log[i].op = "flushInput" =>
              \/ i = 1
              \/ log[i - 1].op = "inWaiting" /\ log[i - 1].arg[1] < 49
        /\ log[i].op = "write" =>
              /\ i > 1 /\ log[i - 1].op = "flushInput"
              /\ log[i].arg = << 170, 187, 0, 2, 42, 110, 254 >>
        /\ log[i].op = "sleep" =>
              /\ i > 1 /\ log[i - 1].op = "write"
              /\ log[i].arg = << 10 >>
        /\ log[i].op = "inWaiting" =>
              i > 1 /\ log[i - 1].op = "sleep"
        /\ log[i].op = "read" =>
              i > 1 /\ log[i - 1].op = "inWaiting" /\ log[i - 1].arg[1] >= 49

\* a call that needed a second attempt and then read its frame
C14_Witness ==
    /\ pc = "parse"
    /\ Len(log) = 9
    /\ log[5].op = "flushInput" /\ log[6].op = "write"
    /\ log[7].op = "sleep" /\ log[8].op = "inWaiting" /\ log[9].op = "read"

\* C15: validate_string checks the length, then the header: a buffer that
\* is not 98 characters long is refused with "Unexpected buffer length"
\* whatever its first 10 characters are, a buffer of 98 characters whose
\* first 10 are not ccdd00022a is refused with "Unexpected header bytes",
\* and a buffer is returned exactly when both checks pass.
C15_LengthThenHeader ==
    res # None =>
        LET b == arg[1]
            r == res[1]
            head == IF Len(b) >= 10 THEN SubSeq(b, 1, 10) ELSE b
            ccdd00022a == << "c", "c", "d", "d", "0", "0", "0", "2", "2", "a" >>
        IN  /\ Len(b) # 98 =>
                /\ r.err = "WeeWxIOError"
                /\ r.msg = "Unexpected buffer length"
                /\ r.buf = None
            /\ (Len(b) = 98 /\ head # ccdd00022a) =>
                /\ r.err = "WeeWxIOError"
                /\ r.msg = "Unexpected header bytes"
                /\ r.buf = None
            /\ r.buf # None <=> (Len(b) = 98 /\ head = ccdd00022a)
            /\ r.buf # None => r.err = "none"

\* a buffer of the wrong length and with the wrong header was refused for
\* its length
C15_Witness ==
    /\ res # None
    /\ Len(arg[1]) = 97
    /\ SubSeq(arg[1], 1, 10) # HEADER
    /\ res[1].msg = "Unexpected buffer length"

\* C16: the payload validate_string returns is the characters of the frame
\* after the 10 header characters, each at the position it had in the frame,
\* also when the data spell ccdd00022a; so the buffer parse_readings decodes
\* has every field at its offset in the frame.
C16_PayloadKeepsOffsets ==
    /\ validated_chars # None =>
          \A i \in 1 .. Len(validated_chars[1]) :
              validated_chars[1][i] = BytesToChars(frame[1])[10 + i]
    /\ parsed # None =>
          \A i \in 1 .. Len(parsed[1]) :
              parsed[1][i] = BytesToChars(frame[1])[10 + i]

\* C17: once a cycle of the session has yielded a packet, every later
\* packet carries a rain delta and a radiation delta computed against the
\* totals of the packet before (the difference, or 0 when the total did not
\* grow), also when those totals were exactly 0: the deltas are absent in the
\* first packet only.
C17_UnsetOnlyBeforeFirst ==
    (pc = "yielded" /\ prev # None) =>
        LET rain == packet[1].long_term_rain - prev[1].long_term_rain
            count == packet[1].long_term_geiger - prev[1].long_term_geiger
        IN  /\ packet[1].deltarain # None
            /\ packet[1].deltarain[1] = rain
                  \/ (rain <= 0 /\ packet[1].deltarain[1] = 0)
            /\ packet[1].geiger # None
            /\ packet[1].geiger[1] = count
                  \/ (count <= 0 /\ packet[1].geiger[1] = 0)

\* the totals the driver holds are those of the last packet it yielded
StoredIsLastYielded ==
    IF prev = None
    THEN last_rain = 0 /\ last_geiger = 0
    ELSE /\ last_rain = prev[1].long_term_rain
         /\ last_geiger = prev[1].long_term_geiger

\* what a step may do to the stored totals, and where it may lead
UpdateInItsPlace ==
    /\ (<< last_rain, last_geiger >>' # << last_rain, last_geiger >>) =>
           (pc = "augment" /\ pc' = "loop_sleep")
    /\ (pc' = "loop_sleep") => (pc \in {"augment", "loop_sleep"})
    /\ (pc' = "augment") => (pc \in {"parse", "augment"})
    /\ (pc' = "yielded") => (pc \in {"loop_sleep", "yielded"})
    /\ (pc' = "raised" /\ pc # "raised") =>
           (/\ << last_rain, last_geiger >>' = << last_rain, last_geiger >>
            /\ packet' = None)
    /\ (pc = "write" /\ pc' = "settle") => StoredIsLastYielded

\* C18: the stored totals change in one step only, the update of a cycle
\* that goes on to yield its packet, once for each packet; a cycle that ends
\* in a short read, a validation error or any other exception leaves them as
\* they were and yields no packet; and whenever a request is written, the
\* update of the cycle before is complete: the stored totals are those of
\* the last yielded packet.
C18_StateOncePerCycle ==
    /\ [](pc \notin {"loop_sleep", "yielded"} => StoredIsLastYielded)
    /\ [][UpdateInItsPlace]_vars

\* a cycle after a yielded packet ended in a short read or a validation
\* error, and the totals of that packet are still stored
C18_Witness ==
    /\ pc = "raised"
    /\ err \in {"UnboundLocalError", "WeeWxIOError"}
    /\ log # << >>
    /\ packet = None
    /\ prev # None
    /\ last_rain # 0 /\ last_rain = prev[1].long_term_rain
    /\ last_geiger # 0 /\ last_geiger = prev[1].long_term_geiger

\* C19: an unsigned value put into the frame low byte first, expanded to
\* lowercase hex digits and decoded comes back as it was: windDir over its 2
\* bytes, long_term_geiger over its 4 bytes; and downfall is true exactly
\* when its 4 bytes are not all zero.
C19_UnsignedRoundTrip ==
    res # None =>
        /\ res[1].err = "none"
        /\ res[1].data[1].windDir = arg[1].windDir
        /\ res[1].data[1].long_term_geiger = arg[1].geiger
        /\ res[1].data[1].downfall = (arg[1].downfall # << 0, 0, 0, 0 >>)

\* values whose bytes differ came back, with downfall set by one high byte
C19_Witness ==
    /\ res # None
    /\ arg[1].windDir = 4660 /\ res[1].data[1].windDir = 4660
    /\ arg[1].geiger = 305419896 /\ res[1].data[1].long_term_geiger = 305419896
    /\ arg[1].downfall = << 0, 0, 0, 1 >> /\ res[1].data[1].downfall = TRUE

\* what a step may do once the port is closed, and what a close call does
CloseOnce ==
    /\ (serial_port = "None") =>
           (serial_port' = "None" /\ handle_closes' = handle_closes)
    /\ (closeCall' # closeCall) =>
           (pc' = pc /\ err' = err /\ packet' = packet)
    /\ (closeCall' # closeCall /\ closeCall' = "noop") =>
           (serial_port = "None" /\ handle_closes' = handle_closes)
    /\ (closeCall' # closeCall /\ closeCall' = "closed") =>
           (serial_port = "open" /\ handle_closes' = handle_closes + 1)

\* C20: closing is idempotent: the serial handle is closed at most once; a
\* closePort or Station.close called when the port is already closed closes
\* nothing and raises nothing (the generator and its error stay as they
\* are); and after closePort the driver holds no open serial handle.
C20_CloseIdempotent ==
    /\ [](/\ handle_closes <= 1
          /\ handle_closes = 1 <=> serial_port = "None"
          /\ station = "None" => serial_port = "None")
    /\ [][CloseOnce]_vars

\* closePort was called again after the port had been closed, between two
\* packets
C20_Witness ==
    /\ closeCall = "noop"
    /\ handle_closes = 1
    /\ station = "None" /\ serial_port = "None"
    /\ pc = "yielded" /\ err = "none" /\ packet # None

====
